---- MODULE Spec2Model ----
(***************************************************************************)
(* Li-GRU engine (fast_ligru): the forward time scan, the reverse-time     *)
(* gradient scan (variants 1.0 and 2.0) and the stream/event discipline    *)
(* that orders their device work.                                          *)
(*                                                                         *)
(* The host is the single controlling thread.  A host action is one call   *)
(* of the binding up to the end of Run (allocations, the engine's          *)
(* constructor, every IterateInternal of the scan, the tail of Run), or    *)
(* the engine's destructor with the return of the call; it enqueues its    *)
(* device operations in program order.  The device runs the operations of  *)
(* each stream in FIFO order and one at a time; streams interleave freely. *)
(*                                                                         *)
(* Element values are exact: see the arithmetic below.                     *)
(***************************************************************************)
EXTENDS Integers, Sequences, FiniteSets, TLC

\* ------------------------------------------------------------------ bounds
MaxT == 2
MaxSeed == 1

\* ------------------------------------------------------- exact arithmetic
\* Element values (the template type T) are taken in the prime field of order P,
\* as residues 0..P-1.  Sum, difference and product are exact and obey the laws
\* of real arithmetic, so an algebraic identity of the kernels is an identity
\* here; floating-point rounding is not modelled.  An integer n is the residue
\* n % P, the fraction n/d is n times the inverse of d, and the order is that of
\* the representatives in -(P-1)/2 .. (P-1)/2.
P == 10007

Inv == [d \in 1..8 |-> CHOOSE x \in 1..(P - 1) : (d * x) % P = 1]

R(n) == n % P
Q(n, d) == (R(n) * Inv[d]) % P
Zero == R(0)
One == R(1)
RAdd(x, y) == (x + y) % P
RSub(x, y) == (x - y) % P
RMul(x, y) == (x * y) % P
RNeg(x) == (0 - x) % P
Centered(x) == IF x > (P - 1) \div 2 THEN x - P ELSE x
RLt(x, y) == Centered(x) < Centered(y)
RLe(x, y) == Centered(x) <= Centered(y)
RAbs(x) == IF Centered(x) < 0 THEN RNeg(x) ELSE x

RECURSIVE RSum(_, _, _)
\* sum of term(k) for k in lo..hi-1
RSum(term(_), lo, hi) ==
    IF lo >= hi THEN Zero ELSE RAdd(term(lo), RSum(term, lo + 1, hi))

\* ------------------------------------------- elementwise functions (inline_ops.h)
\* The transcendental functions are tabulated on the rationals: each keeps the
\* value at 0, the sign, the symmetry and the range of the function it stands for.
sigmoid(x) ==
    IF x = Zero THEN Q(1, 2)
    ELSE IF RLt(Zero, x) THEN (IF RLe(R(2), x) THEN Q(7, 8) ELSE Q(3, 4))
    ELSE (IF RLe(x, R(-2)) THEN Q(1, 8) ELSE Q(1, 4))

tanh(x) ==
    LET ax == RAbs(x)
        m == IF ax = Zero THEN Zero
             ELSE IF RLt(ax, One) THEN Q(1, 2) ELSE Q(3, 4)
    IN  IF RLt(x, Zero) THEN RNeg(m) ELSE m

d_tanh(x) == RSub(One, RMul(tanh(x), tanh(x)))

sin(x) ==
    LET ax == RAbs(x)
        m == IF ax = Zero THEN Zero
             ELSE IF RLt(ax, One) THEN Q(1, 2)
             ELSE IF RLt(ax, R(3)) THEN Q(7, 8) ELSE Zero
    IN  IF RLt(x, Zero) THEN RNeg(m) ELSE m

\* cos
d_sin(x) ==
    LET ax == RAbs(x)
    IN  IF ax = Zero THEN One
        ELSE IF RLt(ax, One) THEN Q(3, 4)
        ELSE IF RLt(ax, R(2)) THEN Q(1, 4)
        ELSE IF RLt(ax, R(3)) THEN Q(-1, 2) ELSE R(-1)

relu(x) == IF RLt(Zero, x) THEN x ELSE Zero
d_relu(x) == IF RLt(Zero, x) THEN One ELSE Zero

LeakySlope == Q(1, 8)
leaky_relu(x) == IF RLt(Zero, x) THEN x ELSE RMul(LeakySlope, x)
d_leaky_relu(x) == IF RLt(Zero, x) THEN One ELSE LeakySlope

\* ------------------------------------------------------------ device memory
\* A buffer is a function from element offsets 0..n-1 to values; a pointer is a
\* buffer name and an element offset, as in `h + i * NH`.
Ptr(b, o) == [buf |-> b, off |-> o]
At(m, p, k) == m[p.buf][p.off + k]
Wr(p, k, val) == <<p.buf, p.off + k, val>>

\* Apply a set of element writes <<buffer, offset, value>> (one per thread and
\* destination, all destinations distinct) to memory.
Apply(m, writes) ==
    [b \in DOMAIN m |->
        IF \E w \in writes : w[1] = b
        THEN [k \in DOMAIN m[b] |->
                 IF \E w \in writes : w[1] = b /\ w[2] = k
                 THEN (CHOOSE w \in writes : w[1] = b /\ w[2] = k)[3]
                 ELSE m[b][k]]
        ELSE m[b]]

Fill(n, val) == [k \in 0..(n - 1) |-> val]

\* ------------------------------------------------------------------- blas
\* Column-major C = alpha * A * op(B) + beta * C; element (i, j) of A is
\* A[i + l*lda]; op(B) is B or its transpose.
GemmElem(m, transB, K, alpha, A, lda, B, ldb, beta, C, ldc, i, j) ==
    LET prod(l) == RMul(At(m, A, i + l * lda),
                        IF transB THEN At(m, B, j + l * ldb)
                                  ELSE At(m, B, l + j * ldb))
    IN  RAdd(RMul(alpha, RSum(prod, 0, K)),
             IF beta = Zero THEN Zero ELSE RMul(beta, At(m, C, i + j * ldc)))

gemm(m, transB, M, N, K, alpha, A, lda, B, ldb, beta, C, ldc) ==
    Apply(m, { Wr(C, i + j * ldc,
                  GemmElem(m, transB, K, alpha, A, lda, B, ldb, beta, C, ldc, i, j))
               : i \in 0..(M - 1), j \in 0..(N - 1) })

\* --------------------------------------------------------------- layer norm
\* Statistics over the `width` features of one batch row; the inverse standard
\* deviation is tabulated like the other transcendental functions.
InvStd(var) ==
    IF var = Zero THEN One
    ELSE IF RLt(var, One) THEN R(2)
    ELSE IF RLt(var, R(4)) THEN One ELSE Q(1, 2)

LnMean(m, x, width, col) ==
    LET term(k) == At(m, x, col * width + k)
    IN  RMul(Q(1, width), RSum(term, 0, width))

LnVar(m, x, width, col) ==
    LET mu == LnMean(m, x, width, col)
        term(k) == LET d == RSub(At(m, x, col * width + k), mu) IN RMul(d, d)
    IN  RMul(Q(1, width), RSum(term, 0, width))

LnNorm(m, x, width, col, k) ==
    RMul(RSub(At(m, x, col * width + k), LnMean(m, x, width, col)),
         InvStd(LnVar(m, x, width, col)))

\* layer_norm::ForwardPass::RunPartial(stream, batch, x, y): y is the
\* normalized copy, x is left as it is.
LayerNormForward(m, batch_dim, width, x, y) ==
    Apply(m, { Wr(y, col * width + k, LnNorm(m, x, width, col, k))
               : col \in 0..(batch_dim - 1), k \in 0..(width - 1) })

\* layer_norm::BackwardPass::RunPartial(stream, batch, dy, dx): the gradient on
\* the raw projection x; dy is left as it is.
LayerNormBackward(m, batch_dim, width, x, dy, dx) ==
    LET mdy(col) == LET term(k) == At(m, dy, col * width + k)
                    IN  RMul(Q(1, width), RSum(term, 0, width))
        mdyy(col) == LET term(k) == RMul(At(m, dy, col * width + k),
                                         LnNorm(m, x, width, col, k))
                     IN  RMul(Q(1, width), RSum(term, 0, width))
        dxe(col, k) ==
            RMul(InvStd(LnVar(m, x, width, col)),
                 RSub(RSub(At(m, dy, col * width + k), mdy(col)),
                      RMul(LnNorm(m, x, width, col, k), mdyy(col))))
    IN  Apply(m, { Wr(dx, col * width + k, dxe(col, k))
                   : col \in 0..(batch_dim - 1), k \in 0..(width - 1) })

\* the activation a kernel is written for, and its derivative
ActOf(kernel, x) ==
    CASE kernel = "ReLU" -> relu(x)
      [] kernel = "LeakyReLU" -> leaky_relu(x)
      [] kernel = "Tanh" -> tanh(x)
      [] kernel = "Sin" -> sin(x)

DActOf(kernel, x) ==
    CASE kernel = "ReLU" -> d_relu(x)
      [] kernel = "LeakyReLU" -> d_leaky_relu(x)
      [] kernel = "Tanh" -> d_tanh(x)
      [] kernel = "Sin" -> d_sin(x)

\* ------------------------------------------------- forward gate kernels (2.0)
\* One thread per (row, col), row < hidden_dim, col < batch_dim.
FwdThread(kernel, Training, hidden_dim, wx, uh, h, h_out, v, m, row, col) ==
    LET weight_idx == col * (hidden_dim * 2) + row
        output_idx == col * hidden_dim + row
        a_idx == weight_idx + 0 * hidden_dim
        z_idx == weight_idx + 1 * hidden_dim
        z == sigmoid(RAdd(At(m, wx, z_idx), At(m, uh, z_idx)))
        a == RAdd(At(m, wx, a_idx), At(m, uh, a_idx))
        hcand == ActOf(kernel, a)
        base_v_idx == col * (hidden_dim * 3) + row
        cur_h_value == RAdd(RMul(z, At(m, h, output_idx)),
                            RMul(RSub(One, z), hcand))
    IN  (IF Training
         THEN { Wr(v, base_v_idx + 1 * hidden_dim, z),
                Wr(v, base_v_idx + 0 * hidden_dim, a),
                Wr(v, base_v_idx + 2 * hidden_dim, hcand) }
         ELSE {})
        \cup { Wr(h_out, output_idx, cur_h_value) }

FwdGrid(kernel, Training, batch_dim, hidden_dim, wx, uh, h, h_out, v, m) ==
    Apply(m, UNION { FwdThread(kernel, Training, hidden_dim, wx, uh, h, h_out, v, m,
                               row, col)
                     : row \in 0..(hidden_dim - 1), col \in 0..(batch_dim - 1) })

FwdPointwiseOperationsReLU(Training, batch_dim, hidden_dim, wx, uh, h, h_out, v, m) ==
    FwdGrid("ReLU", Training, batch_dim, hidden_dim, wx, uh, h, h_out, v, m)

FwdPointwiseOperationsLeakyReLU(Training, batch_dim, hidden_dim, wx, uh, h, h_out, v, m) ==
    FwdGrid("LeakyReLU", Training, batch_dim, hidden_dim, wx, uh, h, h_out, v, m)

FwdPointwiseOperationsTanh(Training, batch_dim, hidden_dim, wx, uh, h, h_out, v, m) ==
    FwdGrid("Tanh", Training, batch_dim, hidden_dim, wx, uh, h, h_out, v, m)

FwdPointwiseOperationsSin(Training, batch_dim, hidden_dim, wx, uh, h, h_out, v, m) ==
    FwdGrid("Sin", Training, batch_dim, hidden_dim, wx, uh, h, h_out, v, m)

\* ------------------------------------------------------ backward gate kernels
\* 1.0: the shared temporary tmp = (1 - z) * dh.
Bwd1Thread(kernel, hidden_dim, h, v, dh_prev, grad_out, dwx, m, row, col) ==
    LET base_idx == col * hidden_dim + row
        dh == RAdd(At(m, grad_out, base_idx), At(m, dh_prev, base_idx))
        stride3_base_idx == col * (hidden_dim * 3) + row
        z_idx == stride3_base_idx + 1 * hidden_dim
        a_idx == stride3_base_idx + 0 * hidden_dim
        hcand_idx == stride3_base_idx + 2 * hidden_dim
        z == At(m, v, z_idx)
        a == At(m, v, a_idx)
        hcand == At(m, v, hcand_idx)
        tmp == RMul(RSub(One, z), dh)
        dat == RMul(DActOf(kernel, a), tmp)
        dzt == RMul(RMul(RSub(At(m, h, base_idx), hcand), z), tmp)
        idx == col * (hidden_dim * 2) + row
    IN  { Wr(dh_prev, base_idx, RMul(dh, z)),
          Wr(dwx, idx + 1 * hidden_dim, dzt),
          Wr(dwx, idx + 0 * hidden_dim, dat) }

\* the 2.0 kernel with the factor z * (1 - z) in both gradients
Bwd2ThreadBothFactors(kernel, hidden_dim, h, v, dh_prev, grad_out, dwx, m, row, col) ==
    LET base_idx == col * hidden_dim + row
        dh == RAdd(At(m, grad_out, base_idx), At(m, dh_prev, base_idx))
        stride3_base_idx == col * (hidden_dim * 3) + row
        z == At(m, v, stride3_base_idx + 1 * hidden_dim)
        a == At(m, v, stride3_base_idx + 0 * hidden_dim)
        hcand == At(m, v, stride3_base_idx + 2 * hidden_dim)
        zz == RMul(z, RSub(One, z))
        idx == col * (hidden_dim * 2) + row
    IN  { Wr(dh_prev, base_idx, RMul(dh, z)),
          Wr(dwx, idx + 1 * hidden_dim,
             RMul(RMul(RSub(At(m, h, base_idx), hcand), dh), zz)),
          Wr(dwx, idx + 0 * hidden_dim, RMul(RMul(DActOf(kernel, a), zz), dh)) }

\* 2.0: the factors written out, z * (1 - z) in dzt and (1 - z) in dat.
Bwd2Thread(kernel, hidden_dim, h, v, dh_prev, grad_out, dwx, m, row, col) ==
    LET base_idx == col * hidden_dim + row
        dh == RAdd(At(m, grad_out, base_idx), At(m, dh_prev, base_idx))
        stride3_base_idx == col * (hidden_dim * 3) + row
        z_idx == stride3_base_idx + 1 * hidden_dim
        a_idx == stride3_base_idx + 0 * hidden_dim
        hcand_idx == stride3_base_idx + 2 * hidden_dim
        z == At(m, v, z_idx)
        a == At(m, v, a_idx)
        hcand == At(m, v, hcand_idx)
        dat == RMul(RMul(DActOf(kernel, a), RSub(One, z)), dh)
        dzt == RMul(RMul(RSub(At(m, h, base_idx), hcand), dh),
                    RMul(z, RSub(One, z)))
        idx == col * (hidden_dim * 2) + row
    IN  { Wr(dh_prev, base_idx, RMul(dh, z)),
          Wr(dwx, idx + 1 * hidden_dim, dzt),
          Wr(dwx, idx + 0 * hidden_dim, dat) }

Bwd1Grid(kernel, batch_dim, hidden_dim, h, v, dh_prev, grad_out, dwx, m) ==
    Apply(m, UNION { Bwd1Thread(kernel, hidden_dim, h, v, dh_prev, grad_out, dwx, m,
                                row, col)
                     : row \in 0..(hidden_dim - 1), col \in 0..(batch_dim - 1) })

Bwd2Grid(kernel, batch_dim, hidden_dim, h, v, dh_prev, grad_out, dwx, m) ==
    Apply(m, UNION { Bwd2Thread(kernel, hidden_dim, h, v, dh_prev, grad_out, dwx, m,
                                row, col)
                     : row \in 0..(hidden_dim - 1), col \in 0..(batch_dim - 1) })

\* ------------------------------------------------------------------ state
VARIABLES
    cfg,         \* the call's arguments: training, activation, version, dimensions,
                 \* the caller's current stream (sync_stream) and the input seed
    mem,         \* device memory: the caller's tensors and scratch buffers
    data_,       \* the live engine's private_data, or NoEngine
    stream,      \* per stream, the operations enqueued and not yet executed
    completed,   \* the operations that finished
    event_done,  \* generations of data_->event whose record has been reached
    blas_stream, \* the stream the cublas handle is bound to
    next_id,     \* serial number of the next enqueued operation
    pc           \* the controlling thread's position

vars == <<cfg, mem, data_, stream, completed, event_done, blas_stream,
          next_id, pc>>

NoEngine == [kind |-> "none"]
NullStream == "null"
Streams == {"stream0", "stream1", "caller"}

\* the cache and all buffers of one call, by dimensions
NH(c) == c.batch_size * c.hidden_size
Max(a, b) == IF a > b THEN a ELSE b

\* ----------------------------------------------------------------- inputs
Palette == <<R(0), R(1), R(-1), R(2), Q(1, 2)>>
Pick(k) == Palette[(k % Len(Palette)) + 1]
\* seed 0 is the all-zero projection with h_init = 2; other seeds are patterns
InputWx(seed, n) == [k \in 0..(n - 1) |-> IF seed = 0 THEN Zero ELSE Pick(seed + 2 * k)]
InputU(seed, n) == [k \in 0..(n - 1) |-> IF seed = 0 THEN Zero ELSE Pick(seed + k + 1)]
InputH(seed, n) == [k \in 0..(n - 1) |-> IF seed = 0 THEN R(2) ELSE Pick(seed + 3 * k + 2)]
InputGrad(seed, n) == [k \in 0..(n - 1) |-> Pick(seed + k + 3)]
\* what an uninitialised allocation (torch::empty) may hold
Garbage(seed) == IF seed % 2 = 0 THEN R(-3) ELSE R(5)

\* u_t of the backward call is the transpose of the forward's u ([H, 2H])
Transpose(u, H) == [k \in 0..(H * 2 * H - 1) |-> u[(k \div H) + (k % H) * (2 * H)]]

\* The buffers of one forward and one backward call.  tmp_uh is addressed by Run
\* as tmp_uh + i * NH * 2: the model lays out the B*2H elements the binding
\* allocates followed by the memory the later steps address (slots 1..T-1).
InitMem(c) ==
    LET T == c.T
        B == c.batch_size
        H == c.hidden_size
        g == Garbage(c.seed)
        u0 == InputU(c.seed, H * 2 * H)
    IN  [ wx          |-> InputWx(c.seed, T * B * 2 * H),
          u           |-> u0,
          u_t         |-> Transpose(u0, H),
          h_init      |-> InputH(c.seed, B * H),
          h           |-> Fill((T + 1) * B * H, g),
          v           |-> Fill(T * B * 3 * H, g),
          tmp_uh      |-> Fill(Max(T, 1) * B * 2 * H, g),
          tmp_uh_norm |-> Fill(B * 2 * H, g),
          grad_out    |-> InputGrad(c.seed, (T + 1) * B * H),
          dwx         |-> Fill(T * B * 2 * H, g),
          tmp_dwx     |-> Fill(T * B * 2 * H, g),
          du          |-> Fill(H * 2 * H, g),
          dh          |-> Fill(B * H, g) ]

\* the input case `seed` fixes the batch and hidden sizes with the values:
\* seed 0 is B = H = 1, seed 1 is B = H = 2, then (2, 1) and (1, 2) in turn
SeedB(seed) == IF seed % 4 \in {1, 2} THEN 2 ELSE 1
SeedH(seed) == IF seed % 4 \in {1, 3} THEN 2 ELSE 1

Configs ==
    { c \in [ training : BOOLEAN, activation : 0..3, version : {1, 2},
              T : 0..MaxT, batch_size : {1, 2}, hidden_size : {1, 2},
              sync_stream : {NullStream, "caller"}, seed : 0..MaxSeed ] :
        /\ c.batch_size = SeedB(c.seed)
        /\ c.hidden_size = SeedH(c.seed)
        \* the forward engine in the source is the 2.0 one; the version selects the
        \* backward engine, which runs only after a training forward
        /\ c.training \/ c.version = 2 }

Init ==
    /\ cfg \in Configs
    /\ mem = InitMem(cfg)
    /\ data_ = NoEngine
    /\ stream = [s \in Streams |-> <<>>]
    /\ completed = {}
    /\ event_done = {}
    /\ blas_stream = "caller"
    /\ next_id = 1
    /\ pc = "forward"

\* ------------------------------------------------- the host's view of the runtime
\* hv = [stream, event, blas_stream, next_id]: what an enqueueing call changes.
\* event is the generation of the latest cudaEventRecord on data_->event (0: never
\* recorded).
Op(kind, training, t, id, gen, args) ==
    [kind |-> kind, training |-> training, t |-> t, id |-> id, gen |-> gen,
     args |-> args]

Launch(hv, s, kind, training, t, args) ==
    [hv EXCEPT !.stream[s] = Append(@, Op(kind, training, t, hv.next_id, 0, args)),
               !.next_id = @ + 1]

\* cudaEventRecord(event, s): the event now stands for the work enqueued on s so far
cudaEventRecord(hv, s) ==
    [hv EXCEPT !.event = @ + 1,
               !.stream[s] = Append(@, Op("record", FALSE, 0, hv.next_id,
                                          hv.event + 1, <<>>)),
               !.next_id = @ + 1]

\* cudaStreamWaitEvent(s, event, 0): s waits for the latest record made so far; an
\* event never recorded is complete, and later records do not affect the wait
cudaStreamWaitEvent(hv, s) ==
    IF hv.event = 0 THEN hv
    ELSE [hv EXCEPT !.stream[s] = Append(@, Op("wait", FALSE, 0, hv.next_id,
                                               hv.event, <<>>)),
                    !.next_id = @ + 1]

cublasSetStream(hv, s) == [hv EXCEPT !.blas_stream = s]

\* blas<T>::gemm(handle, ...): runs on the stream the handle is bound to
BlasGemm(hv, kind, t, args) == Launch(hv, hv.blas_stream, kind, FALSE, t, args)

HostView == [stream |-> stream, event |-> IF data_ = NoEngine THEN 0 ELSE data_.event,
             blas_stream |-> blas_stream, next_id |-> next_id]

\* ------------------------------------------------------------ forward engine
ForwardPassCtor(training, batch_size, input_size, hidden_size, activation, strm) ==
    [kind |-> "forward", activation |-> activation, training |-> training,
     batch_size |-> batch_size, input_size |-> input_size,
     hidden_size |-> hidden_size, sync_stream |-> strm,
     stream |-> (0 :> "stream0" @@ 1 :> "stream1"), event |-> 0]

FwdKernelName(activation) ==
    CASE activation = 0 -> "FwdReLU"
      [] activation = 1 -> "FwdLeakyReLU"
      [] activation = 2 -> "FwdSin"
      [] activation = 3 -> "FwdTanh"

\* IterateInternal with the handle bound to stream[1] for the recurrent matmul
ForwardIterateInternalOffStream(hv, d, u, h, h_out, v, tmp_wx, tmp_uh, tmp_uh_norm, t) ==
    LET stream1 == d.stream[0]
        hv1 == cublasSetStream(hv, d.stream[1])
        hv2 == BlasGemm(hv1, "gemm_uh", t, <<u, h, tmp_uh>>)
        hv3 == Launch(hv2, stream1, "layer_norm", FALSE, t, <<tmp_uh, tmp_uh_norm>>)
        kargs == <<tmp_wx, tmp_uh_norm, h, h_out, v>>
    IN  IF d.activation \in {0, 1, 2, 3}
        THEN Launch(hv3, stream1, FwdKernelName(d.activation), d.training, t, kargs)
        ELSE hv3

\* IterateInternal launching the <T, true> kernels in both modes
ForwardIterateInternalAlwaysCache(hv, d, u, h, h_out, v, tmp_wx, tmp_uh, tmp_uh_norm, t) ==
    LET stream1 == d.stream[0]
        hv1 == cublasSetStream(hv, stream1)
        hv2 == BlasGemm(hv1, "gemm_uh", t, <<u, h, tmp_uh>>)
        hv3 == Launch(hv2, stream1, "layer_norm", FALSE, t, <<tmp_uh, tmp_uh_norm>>)
        kargs == <<tmp_wx, tmp_uh_norm, h, h_out, v>>
    IN  IF d.activation \in {0, 1, 2, 3}
        THEN Launch(hv3, stream1, FwdKernelName(d.activation), TRUE, t, kargs)
        ELSE hv3

ForwardIterateInternal(hv, d, u, h, h_out, v, tmp_wx, tmp_uh, tmp_uh_norm, t) ==
    LET stream1 == d.stream[0]
        hv1 == cublasSetStream(hv, stream1)
        hv2 == BlasGemm(hv1, "gemm_uh", t, <<u, h, tmp_uh>>)
        hv3 == Launch(hv2, stream1, "layer_norm", FALSE, t, <<tmp_uh, tmp_uh_norm>>)
        hv4 == cudaStreamWaitEvent(hv3, stream1)
        kargs == <<tmp_wx, tmp_uh_norm, h, h_out, v>>
    IN  IF d.training
        THEN IF d.activation \in {0, 1, 2, 3}
             THEN Launch(hv4, stream1, FwdKernelName(d.activation), TRUE, t, kargs)
             ELSE hv4
        ELSE IF d.activation \in {0, 1, 3}
             THEN Launch(hv4, stream1, FwdKernelName(d.activation), FALSE, t, kargs)
             ELSE hv4

RECURSIVE ForwardLoopSameRow(_, _, _, _)
\* Run's loop with h_out = h + i * NH: step i overwrites the row it reads
ForwardLoopSameRow(hv, d, i, seq_length) ==
    IF i < seq_length
    THEN LET nh == d.batch_size * d.hidden_size
         IN  ForwardLoopSameRow(
                 ForwardIterateInternal(hv, d, Ptr("u", 0), Ptr("h", i * nh),
                     Ptr("h", i * nh), Ptr("v", i * nh * 3),
                     Ptr("wx", i * nh * 2), Ptr("tmp_uh", i * nh * 2),
                     Ptr("tmp_uh_norm", 0), i),
                 d, i + 1, seq_length)
    ELSE hv

RECURSIVE ForwardLoop(_, _, _, _)
ForwardLoop(hv, d, i, seq_length) ==
    IF i < seq_length
    THEN LET nh == d.batch_size * d.hidden_size
         IN  ForwardLoop(
                 ForwardIterateInternal(hv, d, Ptr("u", 0), Ptr("h", i * nh),
                     Ptr("h", (i + 1) * nh), Ptr("v", i * nh * 3),
                     Ptr("wx", i * nh * 2), Ptr("tmp_uh", i * nh * 2),
                     Ptr("tmp_uh_norm", 0), i),
                 d, i + 1, seq_length)
    ELSE hv

\* Run without the closing cublasSetStream(blas_handle, save_stream)
ForwardRunHostNoRestore(hv, d, seq_length) ==
    ForwardLoop(hv, d, 0, seq_length)

\* ForwardPass<T>::Run: save the handle's stream, scan, restore it
ForwardRunHost(hv, d, seq_length) ==
    LET save_stream == hv.blas_stream
    IN  cublasSetStream(ForwardLoop(hv, d, 0, seq_length), save_stream)

\* the destructor with the event-wait pair of stream[0] only
DtorHandOffScanOnly(hv, d) ==
    cudaStreamWaitEvent(cudaEventRecord(hv, d.stream[0]), "caller")

\* The engine's destructor with a caller stream: hand the pending work over to it.
DtorHandOff(hv, d) ==
    LET hv1 == cudaEventRecord(hv, d.stream[1])
        hv2 == cudaStreamWaitEvent(hv1, "caller")
        hv3 == cudaEventRecord(hv2, d.stream[0])
    IN  cudaStreamWaitEvent(hv3, "caller")

\* ----------------------------------------------------------- backward engines
BackwardPassCtor(version, batch_size, input_size, hidden_size, activation, strm) ==
    [kind |-> "backward", version |-> version, activation |-> activation,
     training |-> TRUE, batch_size |-> batch_size, input_size |-> input_size,
     hidden_size |-> hidden_size, sync_stream |-> strm,
     stream |-> (0 :> "stream0" @@ 1 :> "stream1"), event |-> 0]

BwdKernelName(activation) ==
    CASE activation = 0 -> "BwdReLU"
      [] activation = 1 -> "BwdLeakyReLU"
      [] activation = 2 -> "BwdSin"
      [] activation = 3 -> "BwdTanh"

\* the kernel launch and the event record of its branch
BwdLaunchGate(hv, d, h, v, grad_out, dh, dwx, t) ==
    IF d.activation \in {0, 1, 2, 3}
    THEN cudaEventRecord(
             Launch(hv, d.stream[0], BwdKernelName(d.activation), FALSE, t,
                    <<h, v, dh, grad_out, dwx>>),
             d.stream[0])
    ELSE hv

\* ligru_1_0::BackwardPass<T>::IterateInternal
Backward1IterateInternal(hv, d, u_t, h, v, grad_out, dh, dwx, t) ==
    LET stream1 == d.stream[0]
        hv1 == BwdLaunchGate(hv, d, h, v, grad_out, dh, dwx, t)
        hv2 == cublasSetStream(hv1, stream1)
        hv3 == BlasGemm(hv2, "gemm_dh", t, <<u_t, dwx, dh>>)
    IN  cudaStreamWaitEvent(hv3, stream1)

\* IterateInternal with the recurrent fold enqueued ahead of the layer-norm pass
Backward2IterateInternalFoldFirst(hv, d, u_t, h, v, grad_out, dh, tmp_dwx, dwx, t) ==
    LET stream1 == d.stream[0]
        hv1 == BwdLaunchGate(hv, d, h, v, grad_out, dh, dwx, t)
        hv2 == cudaEventRecord(hv1, stream1)
        hv3 == cublasSetStream(hv2, stream1)
        hv4 == BlasGemm(hv3, "gemm_dh", t, <<u_t, tmp_dwx, dh>>)
        hv5 == cudaStreamWaitEvent(hv4, stream1)
        hv6 == cudaEventRecord(hv5, stream1)
        hv7 == Launch(hv6, stream1, "layer_norm_bwd", FALSE, t, <<dwx, tmp_dwx>>)
    IN  cudaStreamWaitEvent(hv7, stream1)

\* ligru_2_0::BackwardPass<T>::IterateInternal
Backward2IterateInternal(hv, d, u_t, h, v, grad_out, dh, tmp_dwx, dwx, t) ==
    LET stream1 == d.stream[0]
        hv1 == BwdLaunchGate(hv, d, h, v, grad_out, dh, dwx, t)
        hv2 == cudaEventRecord(hv1, stream1)
        hv3 == cublasSetStream(hv2, stream1)
        hv4 == Launch(hv3, stream1, "layer_norm_bwd", FALSE, t, <<dwx, tmp_dwx>>)
        hv5 == cudaStreamWaitEvent(hv4, stream1)
        hv6 == cudaEventRecord(hv5, stream1)
        hv7 == BlasGemm(hv6, "gemm_dh", t, <<u_t, tmp_dwx, dh>>)
    IN  cudaStreamWaitEvent(hv7, stream1)

RECURSIVE BackwardLoopNextRow(_, _, _)
\* Run's loop handing step i the row h + (i + 1) * NH, the step's output row
BackwardLoopNextRow(hv, d, i) ==
    IF i >= 0
    THEN LET nh == d.batch_size * d.hidden_size
         IN  BackwardLoopNextRow(
                 IF d.version = 1
                 THEN Backward1IterateInternal(hv, d, Ptr("u_t", 0),
                          Ptr("h", (i + 1) * nh), Ptr("v", i * nh * 3),
                          Ptr("grad_out", (i + 1) * nh), Ptr("dh", 0),
                          Ptr("dwx", i * nh * 2), i)
                 ELSE Backward2IterateInternal(hv, d, Ptr("u_t", 0),
                          Ptr("h", (i + 1) * nh), Ptr("v", i * nh * 3),
                          Ptr("grad_out", (i + 1) * nh), Ptr("dh", 0),
                          Ptr("tmp_dwx", i * nh * 2), Ptr("dwx", i * nh * 2), i),
                 d, i - 1)
    ELSE hv

RECURSIVE BackwardLoop(_, _, _)
BackwardLoop(hv, d, i) ==
    IF i >= 0
    THEN LET nh == d.batch_size * d.hidden_size
         IN  BackwardLoop(
                 IF d.version = 1
                 THEN Backward1IterateInternal(hv, d, Ptr("u_t", 0), Ptr("h", i * nh),
                          Ptr("v", i * nh * 3), Ptr("grad_out", (i + 1) * nh),
                          Ptr("dh", 0), Ptr("dwx", i * nh * 2), i)
                 ELSE Backward2IterateInternal(hv, d, Ptr("u_t", 0), Ptr("h", i * nh),
                          Ptr("v", i * nh * 3), Ptr("grad_out", (i + 1) * nh),
                          Ptr("dh", 0), Ptr("tmp_dwx", i * nh * 2),
                          Ptr("dwx", i * nh * 2), i),
                 d, i - 1)
    ELSE hv

\* Run without the cudaStreamWaitEvent(stream2, event, 0) before the matmul
BackwardRunHostNoWait(hv, d, time_step) ==
    LET stream2 == d.stream[1]
        save_stream == hv.blas_stream
        hv1 == BackwardLoop(hv, d, time_step - 1)
        hv3 == cublasSetStream(hv1, stream2)
        hv4 == BlasGemm(hv3, "gemm_du", time_step,
                        <<IF d.version = 1 THEN Ptr("dwx", 0) ELSE Ptr("tmp_dwx", 0),
                          Ptr("h", 0), Ptr("du", 0)>>)
    IN  cublasSetStream(hv4, save_stream)

\* BackwardPass<T>::Run: the reverse scan on stream[0], then the sequence-wide
\* weight-gradient matmul on stream[1] behind the event
BackwardRunHost(hv, d, time_step) ==
    LET stream2 == d.stream[1]
        save_stream == hv.blas_stream
        hv1 == BackwardLoop(hv, d, time_step - 1)
        hv2 == cudaStreamWaitEvent(hv1, stream2)
        hv3 == cublasSetStream(hv2, stream2)
        hv4 == BlasGemm(hv3, "gemm_du", time_step,
                        <<IF d.version = 1 THEN Ptr("dwx", 0) ELSE Ptr("tmp_dwx", 0),
                          Ptr("h", 0), Ptr("du", 0)>>)
    IN  cublasSetStream(hv4, save_stream)

\* ------------------------------------------- what each device operation does
\* forward recurrent projection: tmp_uh = U^T h (beta = 0)
ExecGemmUh(op, m, c) ==
    gemm(m, FALSE, c.hidden_size * 2, c.batch_size, c.hidden_size, One,
         op.args[1], c.hidden_size * 2, op.args[2], c.hidden_size, Zero,
         op.args[3], c.hidden_size * 2)

ExecFwdGate(op, m, c) ==
    LET a == op.args
    IN  CASE op.kind = "FwdReLU" ->
                FwdPointwiseOperationsReLU(op.training, c.batch_size, c.hidden_size,
                                           a[1], a[2], a[3], a[4], a[5], m)
          [] op.kind = "FwdLeakyReLU" ->
                FwdPointwiseOperationsLeakyReLU(op.training, c.batch_size, c.hidden_size,
                                                a[1], a[2], a[3], a[4], a[5], m)
          [] op.kind = "FwdSin" ->
                FwdPointwiseOperationsSin(op.training, c.batch_size, c.hidden_size,
                                          a[1], a[2], a[3], a[4], a[5], m)
          [] op.kind = "FwdTanh" ->
                FwdPointwiseOperationsTanh(op.training, c.batch_size, c.hidden_size,
                                           a[1], a[2], a[3], a[4], a[5], m)

\* the backward kernel with one factor (1 - z) on both gradients
BwdSameFactorThread(kernel, hidden_dim, h, v, dh_prev, grad_out, dwx, m, row, col) ==
    LET base_idx == col * hidden_dim + row
        dh == RAdd(At(m, grad_out, base_idx), At(m, dh_prev, base_idx))
        stride3_base_idx == col * (hidden_dim * 3) + row
        z == At(m, v, stride3_base_idx + 1 * hidden_dim)
        a == At(m, v, stride3_base_idx + 0 * hidden_dim)
        hcand == At(m, v, stride3_base_idx + 2 * hidden_dim)
        tmp == RMul(RSub(One, z), dh)
        idx == col * (hidden_dim * 2) + row
    IN  { Wr(dh_prev, base_idx, RMul(dh, z)),
          Wr(dwx, idx + 1 * hidden_dim, RMul(RSub(At(m, h, base_idx), hcand), tmp)),
          Wr(dwx, idx + 0 * hidden_dim, RMul(DActOf(kernel, a), tmp)) }

BwdSameFactorGrid(kernel, batch_dim, hidden_dim, h, v, dh_prev, grad_out, dwx, m) ==
    Apply(m, UNION { BwdSameFactorThread(kernel, hidden_dim, h, v, dh_prev, grad_out,
                                         dwx, m, row, col)
                     : row \in 0..(hidden_dim - 1), col \in 0..(batch_dim - 1) })

ExecBwdGateSameFactor(op, m, c) ==
    LET a == op.args
        B == c.batch_size
        H == c.hidden_size
    IN  CASE op.kind = "BwdReLU" ->
                BwdSameFactorGrid("ReLU", B, H, a[1], a[2], a[3], a[4], a[5], m)
          [] op.kind = "BwdLeakyReLU" ->
                BwdSameFactorGrid("LeakyReLU", B, H, a[1], a[2], a[3], a[4], a[5], m)
          [] op.kind = "BwdSin" ->
                BwdSameFactorGrid("Sin", B, H, a[1], a[2], a[3], a[4], a[5], m)
          [] op.kind = "BwdTanh" ->
                BwdSameFactorGrid("Tanh", B, H, a[1], a[2], a[3], a[4], a[5], m)

ExecBwdGate(op, m, c) ==
    LET a == op.args
        B == c.batch_size
        H == c.hidden_size
    IN  IF c.version = 1
        THEN CASE op.kind = "BwdReLU" ->
                    Bwd1Grid("ReLU", B, H, a[1], a[2], a[3], a[4], a[5], m)
               [] op.kind = "BwdLeakyReLU" ->
                    Bwd1Grid("LeakyReLU", B, H, a[1], a[2], a[3], a[4], a[5], m)
               [] op.kind = "BwdSin" ->
                    Bwd1Grid("Sin", B, H, a[1], a[2], a[3], a[4], a[5], m)
               [] op.kind = "BwdTanh" ->
                    Bwd1Grid("Tanh", B, H, a[1], a[2], a[3], a[4], a[5], m)
        ELSE CASE op.kind = "BwdReLU" ->
                    Bwd2Grid("ReLU", B, H, a[1], a[2], a[3], a[4], a[5], m)
               [] op.kind = "BwdLeakyReLU" ->
                    Bwd2Grid("LeakyReLU", B, H, a[1], a[2], a[3], a[4], a[5], m)
               [] op.kind = "BwdSin" ->
                    Bwd2Grid("Sin", B, H, a[1], a[2], a[3], a[4], a[5], m)
               [] op.kind = "BwdTanh" ->
                    Bwd2Grid("Tanh", B, H, a[1], a[2], a[3], a[4], a[5], m)

\* the fold with beta = 0: dh is overwritten
ExecGemmDhOverwrite(op, m, c) ==
    gemm(m, FALSE, c.hidden_size, c.batch_size, c.hidden_size * 2, One,
         op.args[1], c.hidden_size, op.args[2], c.hidden_size * 2, Zero,
         op.args[3], c.hidden_size)

\* the recurrent fold: dh += U * dwx_t (beta = 1)
ExecGemmDh(op, m, c) ==
    gemm(m, FALSE, c.hidden_size, c.batch_size, c.hidden_size * 2, One,
         op.args[1], c.hidden_size, op.args[2], c.hidden_size * 2, One,
         op.args[3], c.hidden_size)

\* the reduction with k = batch_size * (time_step - 1): the last step left out
ExecGemmDuShort(op, m, c) ==
    gemm(m, TRUE, c.hidden_size * 2, c.hidden_size,
         c.batch_size * Max(op.t - 1, 0), One,
         op.args[1], c.hidden_size * 2, op.args[2], c.hidden_size, One,
         op.args[3], c.hidden_size * 2)

\* the sequence-wide reduction over the flattened (time x batch) axis:
\* du += dwx * h^T (beta = 1); op.t is Run's time_step
ExecGemmDu(op, m, c) ==
    gemm(m, TRUE, c.hidden_size * 2, c.hidden_size, c.batch_size * op.t, One,
         op.args[1], c.hidden_size * 2, op.args[2], c.hidden_size, One,
         op.args[3], c.hidden_size * 2)

\* output[0] = h_init
ExecCopyH0(op, m, c) ==
    Apply(m, { Wr(Ptr("h", 0), k, m.h_init[k]) : k \in 0..(NH(c) - 1) })

\* torch::zeros
ExecZeros(op, m, c) ==
    LET n == CASE op.kind = "zero_tmp_uh" -> c.batch_size * c.hidden_size * 2
               [] op.kind = "zero_dwx" -> c.T * c.batch_size * c.hidden_size * 2
               [] op.kind = "zero_du" -> c.hidden_size * c.hidden_size * 2
               [] op.kind = "zero_dh" -> c.batch_size * c.hidden_size
    IN  Apply(m, { Wr(op.args[1], k, Zero) : k \in 0..(n - 1) })

FwdGateKinds == {"FwdReLU", "FwdLeakyReLU", "FwdSin", "FwdTanh"}
BwdGateKinds == {"BwdReLU", "BwdLeakyReLU", "BwdSin", "BwdTanh"}
ZeroKinds == {"zero_tmp_uh", "zero_dwx", "zero_du", "zero_dh"}

Exec(op, m, c) ==
    CASE op.kind \in FwdGateKinds -> ExecFwdGate(op, m, c)
      [] op.kind \in BwdGateKinds -> ExecBwdGate(op, m, c)
      [] op.kind = "gemm_uh" -> ExecGemmUh(op, m, c)
      [] op.kind = "gemm_dh" -> ExecGemmDh(op, m, c)
      [] op.kind = "gemm_du" -> ExecGemmDu(op, m, c)
      [] op.kind = "layer_norm" ->
            LayerNormForward(m, c.batch_size, c.hidden_size * 2, op.args[1], op.args[2])
      [] op.kind = "layer_norm_bwd" ->
            LayerNormBackward(m, c.batch_size, c.hidden_size * 2,
                              Ptr("tmp_uh", op.t * NH(c) * 2), op.args[1], op.args[2])
      [] op.kind = "copy_h0" -> ExecCopyH0(op, m, c)
      [] op.kind \in ZeroKinds -> ExecZeros(op, m, c)
      [] OTHER -> m

\* ------------------------------------------------------------------ device
PendingIn(st, s) == { st[s][k] : k \in 1..Len(st[s]) }
Pending(s) == PendingIn(stream, s)
Drained(s) == stream[s] = <<>>
Quiescent == \A s \in Streams : Drained(s)

\* The engine's streams are blocking streams (cudaStreamCreate): when the caller's
\* current stream is the legacy default stream (a null cudaStream_t), work on it
\* and work on the engine's streams run in the order they were enqueued.
LegacyOrder(st, op, s) ==
    cfg.sync_stream = NullStream =>
        \A r \in (IF s = "caller" THEN {"stream0", "stream1"} ELSE {"caller"}) :
            \A o \in PendingIn(st, r) : o.id > op.id

\* Event records and event waits take no time: a record at the head of a stream
\* is reached at once, a wait at the head is released as soon as its record has
\* been reached.  Settle(st, done) is <<streams, reached generations>> after that.
RecordReady(st, s) ==
    /\ st[s] # <<>>
    /\ Head(st[s]).kind = "record"
    /\ LegacyOrder(st, Head(st[s]), s)

WaitReady(st, done, s) ==
    /\ st[s] # <<>>
    /\ Head(st[s]).kind = "wait"
    /\ Head(st[s]).gen \in done
    /\ LegacyOrder(st, Head(st[s]), s)

RECURSIVE Settle(_, _)
Settle(st, done) ==
    IF \E s \in Streams : RecordReady(st, s)
    THEN LET s == CHOOSE r \in Streams : RecordReady(st, r)
         IN  Settle([st EXCEPT ![s] = Tail(@)], done \cup {Head(st[s]).gen})
    ELSE IF \E s \in Streams : WaitReady(st, done, s)
    THEN LET s == CHOOSE r \in Streams : WaitReady(st, done, r)
         IN  Settle([st EXCEPT ![s] = Tail(@)], done)
    ELSE <<st, done>>

\* the operation at the head of stream s runs to completion
StreamExec(s) ==
    /\ stream[s] # <<>>
    /\ Head(stream[s]).kind \notin {"record", "wait"}
    /\ LegacyOrder(stream, Head(stream[s]), s)
    /\ mem' = Exec(Head(stream[s]), mem, cfg)
    /\ completed' = completed \cup {Head(stream[s])}
    /\ LET after == Settle([stream EXCEPT ![s] = Tail(@)], event_done)
       IN  stream' = after[1] /\ event_done' = after[2]
    /\ UNCHANGED <<cfg, data_, blas_stream, next_id, pc>>

\* -------------------------------------------------------------------- host
\* what the host's calls enqueued takes effect; `done` are the generations of the
\* live event reached so far
Commit(hv, done) ==
    /\ LET after == Settle(hv.stream, done)
       IN  stream' = after[1] /\ event_done' = after[2]
    /\ blas_stream' = hv.blas_stream
    /\ next_id' = hv.next_id

\* the destructor without its cudaStreamSynchronize calls
DtorReturnsNoSync == TRUE

\* When the destructor returns: at once with a caller stream (its calls only
\* enqueue), else after cudaStreamSynchronize of stream[1] and stream[0].
DtorReturns ==
    data_.sync_stream = NullStream =>
        Drained(data_.stream[1]) /\ Drained(data_.stream[0])

\* ligru_1_0_forward up to the end of Run: allocate, output[0] = h_init on the
\* caller's current stream, construct the engine on that stream, run the scan
ForwardCall ==
    /\ pc = "forward"
    /\ LET d == ForwardPassCtor(cfg.training, cfg.batch_size, 0, cfg.hidden_size,
                                cfg.activation, cfg.sync_stream)
           hv0 == [stream |-> stream, event |-> d.event, blas_stream |-> blas_stream,
                   next_id |-> next_id]
           hv1 == Launch(hv0, "caller", "zero_tmp_uh", FALSE, 0, <<Ptr("tmp_uh", 0)>>)
           hv2 == Launch(hv1, "caller", "copy_h0", FALSE, 0, <<Ptr("h", 0)>>)
           hv3 == ForwardRunHost(hv2, d, cfg.T)
       IN  /\ Commit(hv3, {})
           /\ data_' = [d EXCEPT !.event = hv3.event]
    /\ pc' = "fwd_dtor"
    /\ UNCHANGED <<cfg, mem, completed>>

\* The engine goes out of scope and the call returns: ~ForwardPass hands over to
\* the caller's stream, or blocks until both streams drain; the caller then goes
\* on using its stream.
ForwardReturn ==
    /\ pc = "fwd_dtor"
    /\ DtorReturns
    /\ LET hv1 == IF data_.sync_stream # NullStream
                  THEN DtorHandOff(HostView, data_) ELSE HostView
       IN  Commit(Launch(hv1, "caller", "caller_work", FALSE, 0, <<>>), event_done)
    /\ data_' = NoEngine
    /\ pc' = IF cfg.training THEN "backward" ELSE "done"
    /\ UNCHANGED <<cfg, mem, completed>>

\* ligru_1_0_backward up to the end of Run.  The caller passes the forward's
\* results (h, cache) once the device has finished with them.
BackwardCall ==
    /\ pc = "backward"
    /\ Quiescent
    /\ LET d == BackwardPassCtor(cfg.version, cfg.batch_size, cfg.T, cfg.hidden_size,
                                 cfg.activation, cfg.sync_stream)
           hv0 == [stream |-> stream, event |-> d.event, blas_stream |-> blas_stream,
                   next_id |-> next_id]
           hv1 == Launch(hv0, "caller", "zero_dwx", FALSE, 0, <<Ptr("dwx", 0)>>)
           hv2 == Launch(hv1, "caller", "zero_du", FALSE, 0, <<Ptr("du", 0)>>)
           hv3 == Launch(hv2, "caller", "zero_dh", FALSE, 0, <<Ptr("dh", 0)>>)
           hv4 == BackwardRunHost(hv3, d, cfg.T)
       IN  /\ Commit(hv4, {})
           /\ data_' = [d EXCEPT !.event = hv4.event]
    /\ pc' = "bwd_dtor"
    /\ UNCHANGED <<cfg, mem, completed>>

BackwardReturn ==
    /\ pc = "bwd_dtor"
    /\ DtorReturns
    /\ LET hv1 == IF data_.sync_stream # NullStream
                  THEN DtorHandOff(HostView, data_) ELSE HostView
       IN  Commit(Launch(hv1, "caller", "caller_work", FALSE, 0, <<>>), event_done)
    /\ data_' = NoEngine
    /\ pc' = "done"
    /\ UNCHANGED <<cfg, mem, completed>>

Device == \E s \in Streams : StreamExec(s)

Next ==
    \/ ForwardCall
    \/ ForwardReturn
    \/ BackwardCall
    \/ BackwardReturn
    \/ Device

Spec == Init /\ [][Next]_vars

\* ------------------------------------------------- the tensors by coordinates
\* Elements by (time step, batch row, slot, unit), row-major as the binding
\* allocates them: h is [T+1, B, H], wx and dwx are [T, B, 2H], the cache v is
\* [T, B, 3H], u is [H, 2H].
Steps == 0..(cfg.T - 1)
BatchRows == 0..(cfg.batch_size - 1)
Units == 0..(cfg.hidden_size - 1)

HAt(m, t, b, j) == m.h[(t * cfg.batch_size + b) * cfg.hidden_size + j]
WxAt(m, t, b, s, j) ==
    m.wx[(t * cfg.batch_size + b) * (2 * cfg.hidden_size) + s * cfg.hidden_size + j]
CacheAt(m, t, b, s, j) ==
    m.v[(t * cfg.batch_size + b) * (3 * cfg.hidden_size) + s * cfg.hidden_size + j]
GradAt(m, buf, t, b, s, j) ==
    m[buf][(t * cfg.batch_size + b) * (2 * cfg.hidden_size) + s * cfg.hidden_size + j]
GradOutAt(m, t, b, j) == m.grad_out[(t * cfg.batch_size + b) * cfg.hidden_size + j]
DhAt(m, b, j) == m.dh[b * cfg.hidden_size + j]

\* the activation selected by its id, and its derivative
Act(x) ==
    CASE cfg.activation = 0 -> relu(x)
      [] cfg.activation = 1 -> leaky_relu(x)
      [] cfg.activation = 2 -> sin(x)
      [] cfg.activation = 3 -> tanh(x)

DAct(x) ==
    CASE cfg.activation = 0 -> d_relu(x)
      [] cfg.activation = 1 -> d_leaky_relu(x)
      [] cfg.activation = 2 -> d_sin(x)
      [] cfg.activation = 3 -> d_tanh(x)

\* the recurrent contribution of step t: row b of h[t] times U, layer-normalized
\* over its 2H features; feature s*H + j is slot s of unit j
RawUh(m, t, b) ==
    [l \in 0..(2 * cfg.hidden_size - 1) |->
        LET term(k) == RMul(m.u[k * (2 * cfg.hidden_size) + l], HAt(m, t, b, k))
        IN  RSum(term, 0, cfg.hidden_size)]

UhAt(m, t, b, s, j) ==
    LnNorm([raw |-> RawUh(m, t, b)], Ptr("raw", 0), 2 * cfg.hidden_size, 0,
           s * cfg.hidden_size + j)

\* the gate values of forward step t at (b, j), from the inputs and row t of h
GateA(m, t, b, j) == RAdd(WxAt(m, t, b, 0, j), UhAt(m, t, b, 0, j))
GateZ(m, t, b, j) == sigmoid(RAdd(WxAt(m, t, b, 1, j), UhAt(m, t, b, 1, j)))
StepH(m, t, b, j) ==
    RAdd(RMul(GateZ(m, t, b, j), HAt(m, t, b, j)),
         RMul(RSub(One, GateZ(m, t, b, j)), Act(GateA(m, t, b, j))))

\* Row t of h still holds what forward step t read: every row but row 0 is
\* written once, before the step reads it; row 0 is written by the caller's copy,
\* which is ordered before the scan when the caller's stream is the legacy
\* default stream.
RowHeld(t) == t >= 1 \/ cfg.sync_stream = NullStream

ForwardKinds == FwdGateKinds \cup {"gemm_uh", "layer_norm", "zero_tmp_uh", "copy_h0"}
ScanKinds == FwdGateKinds \cup BwdGateKinds
                 \cup {"gemm_uh", "layer_norm", "gemm_dh", "layer_norm_bwd"}

HasRun(kinds, t) == \E o \in completed : o.kind \in kinds /\ o.t = t

\* the forward call's device work has all run
ForwardSettled ==
    /\ pc # "forward"
    /\ \A s \in Streams : \A o \in Pending(s) : o.kind \notin ForwardKinds

\* ------------------------------------------------------------------ claims
\* C1: for every activation id and both training modes, each forward step t
\* writes every element (b, j) of h[t+1] with z*h[t] + (1-z)*f(a), so that once
\* the forward's device work has run all rows h[1..T] are defined.
C1_EveryStepWritesH ==
    ForwardSettled =>
        \A t \in Steps :
            /\ HasRun(FwdGateKinds, t)
            /\ RowHeld(t) =>
                   \A b \in BatchRows : \A j \in Units :
                       HAt(mem, t + 1, b, j) = StepH(mem, t, b, j)

\* C1 with the one (mode, activation) pair left out for which IterateInternal
\* launches no kernel
C1_EveryStepWritesH_Launched ==
    (cfg.training \/ cfg.activation # 2) => C1_EveryStepWritesH

\* inference with sin: the scan has run and row 1 of h is still what the
\* allocation held
C1_Unwritten ==
    /\ ~cfg.training /\ cfg.activation = 2 /\ cfg.T >= 1
    /\ ForwardSettled
    /\ HasRun({"layer_norm"}, cfg.T - 1)
    /\ \A b \in BatchRows : \A j \in Units : HAt(mem, 1, b, j) = Garbage(cfg.seed)

\* the example of the claim: T = 1, B = H = 1, tanh, zero wx and u, h_init = 2
C1_Example ==
    /\ cfg.T = 1 /\ cfg.seed = 0 /\ cfg.activation = 3
    /\ ForwardSettled
    /\ HAt(mem, 1, 0, 0) = One

\* C2: the sequence-wide weight-gradient matmul runs on stream[1] and does not
\* start before the gate kernel of every one of the T steps (and, in 2.0, the
\* layer-norm backward pass that writes the buffer it reads) has completed.
C2_DuAfterAllSteps ==
    /\ \A s \in Streams : \A o \in Pending(s) : o.kind = "gemm_du" => s = "stream1"
    /\ \A o \in completed :
           o.kind = "gemm_du" =>
               \A t \in Steps :
                   /\ HasRun(BwdGateKinds, t)
                   /\ cfg.version = 2 => HasRun({"layer_norm_bwd"}, t)

C2_Witness ==
    /\ cfg.T >= 2
    /\ cfg.sync_stream # NullStream
    /\ \E o \in completed : o.kind = "gemm_du"

\* C3: every operation of a time scan (recurrent matmul, layer-norm pass, gate
\* kernel) is on stream[0] only, and the scan's operations complete in the order
\* the host enqueued them: none is pending that was enqueued before a completed one.
C3_ScanInProgramOrder ==
    /\ \A s \in Streams \ {"stream0"} : \A o \in Pending(s) : o.kind \notin ScanKinds
    /\ \A o \in completed :
           o.kind \in ScanKinds =>
               \A s \in Streams : \A q \in Pending(s) :
                   q.kind \in ScanKinds => q.id > o.id

C3_Witness ==
    /\ \E o \in completed : o.kind \in FwdGateKinds /\ o.t = 1
    /\ \E o \in completed : o.kind = "gemm_dh" /\ o.t = 0
    /\ cfg.T >= 2

\* C4: with a caller stream, work enqueued on the caller's stream after the
\* destructor returned runs only once everything enqueued before it on both
\* internal streams has completed, and the destructor returns whatever the
\* device has still to do.
C4_DtorHandsOver ==
    /\ \A o \in completed :
           o.kind = "caller_work" =>
               \A s \in {"stream0", "stream1"} : \A q \in Pending(s) : q.id > o.id
    /\ (pc \in {"fwd_dtor", "bwd_dtor"} /\ cfg.sync_stream # NullStream) => DtorReturns

\* the backward engine's destructor has returned with the scan and the reduction
\* still to run, and the caller's next work is held behind them
C4_Witness ==
    /\ cfg.sync_stream # NullStream
    /\ cfg.T >= 2
    /\ pc = "done"
    /\ \E q \in Pending("stream1") : q.kind = "gemm_du"
    /\ \E q \in Pending("stream0") : q.kind \in BwdGateKinds
    /\ \E o \in Pending("caller") : o.kind = "caller_work"

\* C5: h has T+1 rows; row 0 is h_init from the caller's copy on (and untouched
\* before it); no forward step writes row 0, and row t+1 is untouched until
\* step t writes it.
C5_RowZeroIsHInit ==
    /\ DOMAIN mem.h = 0..((cfg.T + 1) * NH(cfg) - 1)
    /\ \A b \in BatchRows : \A j \in Units :
           HAt(mem, 0, b, j) = IF HasRun({"copy_h0"}, 0)
                               THEN mem.h_init[b * cfg.hidden_size + j]
                               ELSE Garbage(cfg.seed)
    /\ \A t \in Steps :
           ~HasRun(FwdGateKinds, t) =>
               \A b \in BatchRows : \A j \in Units :
                   HAt(mem, t + 1, b, j) = Garbage(cfg.seed)

C5_Witness ==
    /\ cfg.T >= 2
    /\ HasRun({"copy_h0"}, 0)
    /\ HasRun(FwdGateKinds, 1)
    /\ HAt(mem, 0, 0, 0) # Garbage(cfg.seed)

\* C6: a forward scan with training = false leaves every element of the cache v
\* as it was, for every activation id, T and (b, j).
C6_InferenceLeavesCache ==
    ~cfg.training => \A k \in DOMAIN mem.v : mem.v[k] = Garbage(cfg.seed)

C6_Witness ==
    /\ ~cfg.training
    /\ cfg.T >= 2
    /\ HasRun(FwdGateKinds, 1)
    /\ ForwardSettled

\* the operation a device step runs
Running == { o \in completed' : o \notin completed }

\* the per-step gradient the recurrent fold and the reduction read: the gate
\* kernel's dwx in 1.0, its layer-norm backward image tmp_dwx in 2.0
StepGradBuf == IF cfg.version = 1 THEN "dwx" ELSE "tmp_dwx"

\* what the backward gate kernel receives at (b, j) of step t
DhTotal(m, t, b, j) == RAdd(GradOutAt(m, t + 1, b, j), DhAt(m, b, j))

\* C7: when backward step t runs, the cache slice of step t still holds in slots
\* (0, 1, 2) the triple (a, z, candidate) forward step t computed from wx[t], u and
\* row t of h, and the step's outputs are those that triple and row t of h give.
C7_BackwardReads ==
    \A o \in Running :
        (o.kind \in BwdGateKinds /\ RowHeld(o.t)) =>
            \A b \in BatchRows : \A j \in Units :
                LET a == GateA(mem, o.t, b, j)
                    z == GateZ(mem, o.t, b, j)
                    D == DhTotal(mem, o.t, b, j)
                IN  /\ CacheAt(mem, o.t, b, 0, j) = a
                    /\ CacheAt(mem, o.t, b, 1, j) = z
                    /\ CacheAt(mem, o.t, b, 2, j) = Act(a)
                    /\ GradAt(mem', "dwx", o.t, b, 0, j) =
                           RMul(RMul(DAct(a), RSub(One, z)), D)
                    /\ GradAt(mem', "dwx", o.t, b, 1, j) =
                           RMul(RMul(RSub(HAt(mem, o.t, b, j), Act(a)),
                                     RMul(z, RSub(One, z))), D)
                    /\ DhAt(mem', b, j) = RMul(D, z)

BackwardOps == { o \in completed \cup UNION { Pending(s) : s \in Streams } :
                   o.kind \in BwdGateKinds \cup {"gemm_dh"} }

C8_Order ==
    /\ \A o \in completed :
           o.kind \in BwdGateKinds \cup {"gemm_dh"} =>
               /\ HasRun(BwdGateKinds, o.t)
               /\ \A t \in (o.t + 1)..(cfg.T - 1) :
                      HasRun(BwdGateKinds, t) /\ HasRun({"gemm_dh"}, t)
    /\ \A o \in BackwardOps : \A q \in BackwardOps :
           (o.t = q.t /\ (o.kind = "gemm_dh") = (q.kind = "gemm_dh")) => o = q
    /\ (cfg.training /\ pc \in {"bwd_dtor", "done"}) =>
           \A t \in Steps : \E o \in BackwardOps : \E q \in BackwardOps :
               o.t = t /\ q.t = t /\ o.kind \in BwdGateKinds /\ q.kind = "gemm_dh"

\* U * dwx_t at (b, j): row j of u ([H, 2H]) times the step's gradient row
Fold(m, t, b, j) ==
    LET term(l) == RMul(m.u[j * (2 * cfg.hidden_size) + l],
                        m[StepGradBuf][(t * cfg.batch_size + b) * (2 * cfg.hidden_size) + l])
    IN  RSum(term, 0, 2 * cfg.hidden_size)

C8_Step ==
    \A o \in Running : \A b \in BatchRows : \A j \in Units :
        /\ o.kind \in BwdGateKinds =>
               DhAt(mem', b, j) = RMul(DhTotal(mem, o.t, b, j), CacheAt(mem, o.t, b, 1, j))
        /\ o.kind = "gemm_dh" =>
               DhAt(mem', b, j) = RAdd(DhAt(mem, b, j), Fold(mem, o.t, b, j))

RECURSIVE DhFrom(_, _)
\* dh after the steps T-1, ..., t, started from zero
DhFrom(m, t) ==
    IF t >= cfg.T THEN [b \in BatchRows |-> [j \in Units |-> Zero]]
    ELSE LET later == DhFrom(m, t + 1)
         IN  [b \in BatchRows |-> [j \in Units |->
                 RAdd(RMul(RAdd(GradOutAt(m, t + 1, b, j), later[b][j]),
                           CacheAt(m, t, b, 1, j)),
                      Fold(m, t, b, j))]]

\* the caller's zero fill is ordered before the scan on the legacy default stream
C8_Final ==
    (cfg.training /\ pc = "done" /\ Quiescent /\ cfg.sync_stream = NullStream) =>
        \A b \in BatchRows : \A j \in Units : DhAt(mem, b, j) = DhFrom(mem, 0)[b][j]

C8_ReverseScan == [][C8_Step /\ C8_Order' /\ C8_Final']_vars

C8_Witness ==
    /\ cfg.training /\ pc = "done" /\ Quiescent /\ cfg.sync_stream = NullStream
    /\ cfg.T >= 2
    /\ cfg.seed = 1
    /\ \E b \in BatchRows : \E j \in Units : DhAt(mem, b, j) # Zero

\* C9: the single matmul over the flattened (time x batch) axis adds to du, at
\* every (unit j, feature i), the sum over t = 0..T-1 and over the batch rows of
\* dwx_t[b, i] * h_t[b, j], h_t being row t of the hidden sequence.
C9_Step ==
    \A o \in Running :
        o.kind = "gemm_du" =>
            \A j \in Units : \A i \in 0..(2 * cfg.hidden_size - 1) :
                LET perStep(t) ==
                        LET perRow(b) ==
                                RMul(mem[StepGradBuf][(t * cfg.batch_size + b) * (2 * cfg.hidden_size) + i], HAt(mem, t, b, j))
                        IN  RSum(perRow, 0, cfg.batch_size)
                IN  mem'.du[j * (2 * cfg.hidden_size) + i] =
                        RAdd(mem.du[j * (2 * cfg.hidden_size) + i],
                             RSum(perStep, 0, cfg.T))

C9_ReductionIsSum == [][C9_Step]_vars

C9_Witness ==
    /\ cfg.T >= 2
    /\ cfg.seed = 1
    /\ \E o \in completed : o.kind = "gemm_du"
    /\ \E k \in DOMAIN mem.du : mem.du[k] \notin {Zero, Garbage(cfg.seed)}

\* C10 (as the code has it): with dh_total = grad_out_t + dh, the kernel stores
\* dz = (h_prev - candidate) * z * (1 - z) * dh_total in dwx slot 1 and
\* da = f'(a) * (1 - z) * dh_total in dwx slot 0, the two weights differing by
\* the factor z, and dh becomes dh_total * z.
C10_Step ==
    \A o \in Running :
        o.kind \in BwdGateKinds =>
            \A b \in BatchRows : \A j \in Units :
                LET a == CacheAt(mem, o.t, b, 0, j)
                    z == CacheAt(mem, o.t, b, 1, j)
                    hcand == CacheAt(mem, o.t, b, 2, j)
                    D == DhTotal(mem, o.t, b, j)
                IN  /\ GradAt(mem', "dwx", o.t, b, 1, j) =
                           RMul(RMul(RSub(HAt(mem, o.t, b, j), hcand),
                                     RMul(z, RSub(One, z))), D)
                    /\ GradAt(mem', "dwx", o.t, b, 0, j) =
                           RMul(RMul(DAct(a), RSub(One, z)), D)
                    /\ DhAt(mem', b, j) = RMul(D, z)

C10_GateGradients == [][C10_Step]_vars

C10_Witness ==
    /\ cfg.seed = 1
    /\ HasRun(BwdGateKinds, 0)
    /\ \E b \in BatchRows : \E j \in Units :
           GradAt(mem, "dwx", 0, b, 1, j) # Zero /\ GradAt(mem, "dwx", 0, b, 0, j) # Zero

\* C10 as stated: one and the same factor g weights both gradients,
\* dz = (h_prev - candidate) * g * dh_total and da = f'(a) * g * dh_total.  In a
\* field such a g exists exactly when dz * (f'(a) * dh_total) equals
\* da * ((h_prev - candidate) * dh_total).
C10_SameFactorStep ==
    \A o \in Running :
        o.kind \in BwdGateKinds =>
            \A b \in BatchRows : \A j \in Units :
                LET a == CacheAt(mem, o.t, b, 0, j)
                    hcand == CacheAt(mem, o.t, b, 2, j)
                    D == DhTotal(mem, o.t, b, j)
                IN  /\ RMul(GradAt(mem', "dwx", o.t, b, 1, j), RMul(DAct(a), D)) =
                           RMul(GradAt(mem', "dwx", o.t, b, 0, j),
                                RMul(RSub(HAt(mem, o.t, b, j), hcand), D))
                    /\ DhAt(mem', b, j) = RMul(D, CacheAt(mem, o.t, b, 1, j))

C10_SameFactor == [][C10_SameFactorStep]_vars

\* ------------------------------------------- activation ids outside {0, 1, 2, 3}
\* The binding passes the caller's integer to the engines unchecked; the engines
\* store it as given.
UnknownActivations == {-1, 4}

UnknownConfigs ==
    { [c EXCEPT !.activation = a] : c \in Configs, a \in UnknownActivations }

InitUnknown ==
    /\ cfg \in UnknownConfigs
    /\ mem = InitMem(cfg)
    /\ data_ = NoEngine
    /\ stream = [s \in Streams |-> <<>>]
    /\ completed = {}
    /\ event_done = {}
    /\ blas_stream = "caller"
    /\ next_id = 1
    /\ pc = "forward"

SpecUnknown == InitUnknown /\ [][Next]_vars

\* C11: an activation id outside {0, 1, 2, 3} is a fatal failure: neither engine's
\* Run returns normally with that id, having skipped the gate kernel (under
\* SpecUnknown, where every call carries such an id).
C11_UnknownActivationFatal ==
    cfg.activation \notin {0, 1, 2, 3} => pc = "forward"

\* C11 (what the code does): the forward call has returned to its caller, the
\* device is idle, the recurrent matmul of every step ran and no gate kernel did
C11_SilentSkip ==
    /\ cfg.activation \notin {0, 1, 2, 3}
    /\ cfg.T >= 1
    /\ pc \in {"backward", "done"}
    /\ Quiescent
    /\ \A t \in Steps : HasRun({"gemm_uh"}, t) /\ ~HasRun(FwdGateKinds, t)

\* ------------------------------------------------ runtime calls that fail
\* No call site reads a return value: cudaStreamCreate and
\* cudaEventCreateWithFlags in the constructors, the <<<...>>> launches in
\* IterateInternal (no cudaGetLastError follows).  A failed call changes nothing
\* on the device and the host goes on.
\*   "create": cudaStreamCreate fails and leaves data_->stream[] unset; every
\*             launch and matmul of the engine names no stream and is rejected.
\*   "launch": the gate kernel launch of step t is rejected (a grid the device
\*             cannot run); the launches before and after it are accepted.
FaultKinds == {"create_failed", "launch_failed"}

Faults(c) ==
    {[kind |-> "create_failed", t |-> 0]}
        \cup {[kind |-> "launch_failed", t |-> t] : t \in 0..(c.T - 1)}

Rejected(kinds, f, o) ==
    \/ f.kind = "create_failed"
    \/ f.kind = "launch_failed" /\ o.kind \in kinds /\ o.t = f.t

\* the host's view once the rejected calls are taken out of the engine's streams
ApplyFault(hv, d, kinds, f) ==
    [hv EXCEPT !.stream =
        [s \in Streams |->
            IF s \in {d.stream[0], d.stream[1]}
            THEN SelectSeq(hv.stream[s], LAMBDA o : ~Rejected(kinds, f, o))
            ELSE hv.stream[s]]]

FaultMark(f) == Op(f.kind, FALSE, f.t, 0, 0, <<>>)

\* ligru_1_0_forward in which one runtime call of the engine fails
FaultyForwardCall ==
    /\ pc = "forward"
    /\ \E f \in Faults(cfg) :
        LET d == ForwardPassCtor(cfg.training, cfg.batch_size, 0, cfg.hidden_size,
                                 cfg.activation, cfg.sync_stream)
            hv0 == [stream |-> stream, event |-> d.event, blas_stream |-> blas_stream,
                    next_id |-> next_id]
            hv1 == Launch(hv0, "caller", "zero_tmp_uh", FALSE, 0, <<Ptr("tmp_uh", 0)>>)
            hv2 == Launch(hv1, "caller", "copy_h0", FALSE, 0, <<Ptr("h", 0)>>)
            hv3 == ApplyFault(ForwardRunHost(hv2, d, cfg.T), d, FwdGateKinds, f)
        IN  /\ Commit(hv3, {})
            /\ data_' = [d EXCEPT !.event = hv3.event]
            /\ completed' = completed \cup {FaultMark(f)}
    /\ pc' = "fwd_dtor"
    /\ UNCHANGED <<cfg, mem>>

\* ligru_1_0_backward in which one runtime call of the engine fails
FaultyBackwardCall ==
    /\ pc = "backward"
    /\ Quiescent
    /\ \E f \in Faults(cfg) :
        LET d == BackwardPassCtor(cfg.version, cfg.batch_size, cfg.T, cfg.hidden_size,
                                  cfg.activation, cfg.sync_stream)
            hv0 == [stream |-> stream, event |-> d.event, blas_stream |-> blas_stream,
                    next_id |-> next_id]
            hv1 == Launch(hv0, "caller", "zero_dwx", FALSE, 0, <<Ptr("dwx", 0)>>)
            hv2 == Launch(hv1, "caller", "zero_du", FALSE, 0, <<Ptr("du", 0)>>)
            hv3 == Launch(hv2, "caller", "zero_dh", FALSE, 0, <<Ptr("dh", 0)>>)
            hv4 == ApplyFault(BackwardRunHost(hv3, d, cfg.T), d, BwdGateKinds, f)
        IN  /\ Commit(hv4, {})
            /\ data_' = [d EXCEPT !.event = hv4.event]
            /\ completed' = completed \cup {FaultMark(f)}
    /\ pc' = "bwd_dtor"
    /\ UNCHANGED <<cfg, mem>>

NextFaults ==
    \/ Next
    \/ FaultyForwardCall
    \/ FaultyBackwardCall

SpecFaults == Init /\ [][NextFaults]_vars

\* C12: a failed stream creation or a failed launch is a hard failure, so a call
\* that returned normally has every output defined: once the forward call has
\* returned and the device is idle every row h[t+1] was written by its gate
\* kernel, and once the backward call has returned every dwx_t was (left aside
\* the inference scan with sin, whose rows C1 shows unwritten without any
\* failure).
C12_NormalReturnDefined ==
    /\ (pc \in {"backward", "done"} /\ Quiescent /\ (cfg.training \/ cfg.activation # 2))
           => \A t \in Steps : HasRun(FwdGateKinds, t)
    /\ (pc = "done" /\ Quiescent /\ cfg.training)
           => \A t \in Steps : HasRun(BwdGateKinds, t)

\* C12 (what the code does): stream creation failed in the forward constructor,
\* the call returned normally all the same and no row of h beyond h[0] was written
C12_CreateFailedReturned ==
    /\ \E o \in completed : o.kind = "create_failed" /\ o.t = 0
    /\ cfg.T >= 1
    /\ pc \in {"backward", "done"}
    /\ Quiescent
    /\ \A t \in Steps : ~HasRun(FwdGateKinds, t)

\* C13: every Run leaves the matmul handle bound to the stream it was bound to on
\* entry, for every T (T = 0 included), although the steps rebind it to stream[0]
\* and the weight-gradient matmul to stream[1]: no step of the program changes
\* the handle's stream as the caller sees it.
C13_HandleRestored == [][blas_stream' = blas_stream]_vars

\* C13: the backward Run has returned, its matmuls were routed to the engine's
\* streams (the reduction is pending on stream[1], a fold ran on stream[0]) and
\* the handle is bound to the caller's stream again
C13_Witness ==
    /\ pc = "bwd_dtor"
    /\ \E o \in Pending("stream1") : o.kind = "gemm_du"
    /\ \E o \in completed : o.kind = "gemm_dh"
    /\ blas_stream = "caller"

\* C14: the host never blocks in construction or Run, and blocks only in the
\* destructor of an engine whose caller stream is null, which returns only after
\* both internal streams drained.  Step by step: when a call (constructor and Run)
\* returns, the matmul of every step it enqueued is still pending and nothing
\* ran meanwhile; a destructor with a null caller stream returns from a state
\* where stream[1] and stream[0] are empty; a destructor with a caller stream
\* can always return.
C14_Step ==
    /\ (pc = "forward" /\ pc' = "fwd_dtor") =>
           /\ completed' = completed
           /\ \A t \in Steps :
                  \E o \in PendingIn(stream', "stream0") : o.kind = "gemm_uh" /\ o.t = t
    /\ (pc = "backward" /\ pc' = "bwd_dtor") =>
           /\ completed' = completed
           /\ \A t \in Steps :
                  \E o \in PendingIn(stream', "stream0") : o.kind = "gemm_dh" /\ o.t = t
           /\ \E o \in PendingIn(stream', "stream1") : o.kind = "gemm_du"
    /\ (pc \in {"fwd_dtor", "bwd_dtor"} /\ pc' # pc /\ cfg.sync_stream = NullStream) =>
           Drained("stream1") /\ Drained("stream0")
    /\ (pc \in {"fwd_dtor", "bwd_dtor"} /\ cfg.sync_stream # NullStream) => DtorReturns

C14_HostBlocksOnlyInNullDtor == [][C14_Step]_vars

\* C14: the host is blocked in the destructor of an engine with a null caller
\* stream while the scan goes on: a step has run, stream[0] still holds work
C14_Witness ==
    /\ pc = "fwd_dtor"
    /\ cfg.sync_stream = NullStream
    /\ cfg.T >= 2
    /\ ~DtorReturns
    /\ HasRun(FwdGateKinds, 0)
    /\ ~Drained("stream0")

\* The scan as a function of the call's inputs alone: a memory whose rows 0..t of
\* h are h_init and the rows the recurrence derives from it with wx and u.
RECURSIVE ScanFromInputs(_)
ScanFromInputs(t) ==
    IF t = 0
    THEN [mem EXCEPT !.h = [k \in DOMAIN mem.h |->
                               IF k < NH(cfg) THEN mem.h_init[k] ELSE Zero]]
    ELSE LET p == ScanFromInputs(t - 1)
         IN  [p EXCEPT !.h = [k \in DOMAIN mem.h |->
                 IF k \in (t * NH(cfg))..((t + 1) * NH(cfg) - 1)
                 THEN StepH(p, t - 1, (k - t * NH(cfg)) \div cfg.hidden_size,
                            k % cfg.hidden_size)
                 ELSE p.h[k]]]

\* C15: two inference calls with identical inputs return identical h_sequence in
\* every execution, whatever the output and scratch buffers held before and
\* however the device interleaves the work: once the forward's device work has
\* run, h is the value the inputs (wx, h_init, u) determine.
C15_InferenceDeterministic ==
    (~cfg.training /\ ForwardSettled) =>
        \A k \in 0..((cfg.T + 1) * NH(cfg) - 1) : mem.h[k] = ScanFromInputs(cfg.T).h[k]

\* C15 where it holds: the caller's current stream is the legacy default stream
\* and the activation is one whose inference kernel is launched
C15_InferenceDeterministic_Ordered ==
    (cfg.sync_stream = NullStream /\ cfg.activation # 2) => C15_InferenceDeterministic

\* C15 (what the code does): with a caller stream the first step ran before the
\* caller's copy of h_init into row 0, and wrote row 1 from what row 0 held before
C15_ReadBeforeCopy ==
    /\ ~cfg.training /\ cfg.activation # 2 /\ cfg.T >= 1
    /\ cfg.sync_stream # NullStream
    /\ ForwardSettled
    /\ HasRun(FwdGateKinds, 0)
    /\ \E k \in NH(cfg)..(2 * NH(cfg) - 1) : mem.h[k] # ScanFromInputs(cfg.T).h[k]

\* the elements of tmp_uh the recurrent matmul of an operation writes: an
\* (2H x B) result with leading dimension 2H at its output pointer
UhWritten(o) ==
    o.args[3].off..(o.args[3].off + cfg.batch_size * (2 * cfg.hidden_size) - 1)

\* C16: tmp_uh is one buffer of B x 2H elements reused by every step: the
\* recurrent matmul of every forward step writes only offsets 0..B*2H-1 of it.
C16_TmpUhOneSlot ==
    \A o \in completed :
        o.kind = "gemm_uh" =>
            /\ o.args[3].buf = "tmp_uh"
            /\ UhWritten(o) \subseteq 0..(cfg.batch_size * (2 * cfg.hidden_size) - 1)

\* C16 (what the code does): the matmul of step 1 has written the B*2H elements
\* that start at offset B*2H of tmp_uh
C16_SecondSlotWritten ==
    /\ cfg.T >= 2
    /\ \E o \in completed :
           /\ o.kind = "gemm_uh" /\ o.t = 1
           /\ UhWritten(o) = (NH(cfg) * 2)..(2 * NH(cfg) * 2 - 1)
           /\ \A k \in UhWritten(o) : mem.tmp_uh[k] # Garbage(cfg.seed)

\* C17: in the 2.0 backward, at each step the layer-norm backward pass runs after
\* the step's gate kernel wrote dwx_t and before the step's recurrent fold; its
\* output tmp_dwx_t, not dwx_t, is what the fold and the weight-gradient
\* reduction read; the reduction starts only after the pass of every step, the
\* last one (t = 0) included, has completed; the pass leaves dwx as the gate
\* kernel wrote it.
C17_Order ==
    /\ \A t \in Steps :
           /\ HasRun({"layer_norm_bwd"}, t) => HasRun(BwdGateKinds, t)
           /\ HasRun({"gemm_dh"}, t) => HasRun({"layer_norm_bwd"}, t)
    /\ HasRun({"gemm_du"}, cfg.T) => \A t \in Steps : HasRun({"layer_norm_bwd"}, t)

C17_Operands ==
    \A s \in Streams : \A o \in Pending(s) \cup completed :
        /\ o.kind = "layer_norm_bwd" =>
               o.args = <<Ptr("dwx", o.t * NH(cfg) * 2), Ptr("tmp_dwx", o.t * NH(cfg) * 2)>>
        /\ o.kind = "gemm_dh" => o.args[2] = Ptr("tmp_dwx", o.t * NH(cfg) * 2)
        /\ o.kind = "gemm_du" => o.args[1] = Ptr("tmp_dwx", 0)

C17_Step ==
    cfg.version = 2 =>
        /\ C17_Order'
        /\ C17_Operands'
        /\ \A o \in Running : o.kind = "layer_norm_bwd" => mem'.dwx = mem.dwx

C17_LayerNormCoPass == [][C17_Step]_vars

\* C17: a 2.0 backward over two steps has run to its reduction, the layer-norm
\* pass of step 0 produced a tmp_dwx_0 that differs from dwx_0
C17_Witness ==
    /\ cfg.version = 2 /\ cfg.T >= 2
    /\ HasRun({"gemm_du"}, cfg.T)
    /\ \A t \in Steps : HasRun({"layer_norm_bwd"}, t) /\ HasRun({"gemm_dh"}, t)
    /\ \E k \in 0..(NH(cfg) * 2 - 1) : mem.tmp_dwx[k] # mem.dwx[k]

\* the caller-stream work of the binding that initialises a buffer Run uses:
\* output[0] = h_init and the torch::zeros fills
InitKinds == ZeroKinds \cup {"copy_h0"}
EngineKinds == ScanKinds \cup {"gemm_du"}

\* engine operation o takes as operand the memory caller operation q initialises:
\* the zero fills of dwx, du, dh cover their buffer, the copy covers row 0 of h
\* and the fill of tmp_uh its first B*2H elements
Touches(o, q) ==
    \E i \in DOMAIN o.args :
        /\ o.args[i].buf = q.args[1].buf
        /\ q.kind \in {"copy_h0", "zero_tmp_uh"} => o.args[i].off = 0

\* an engine operation has run while an earlier caller-stream initialisation of
\* one of its operands is still pending
RanBeforeInit ==
    \E o \in completed : \E q \in Pending("caller") :
        /\ o.kind \in EngineKinds
        /\ q.kind \in InitKinds
        /\ q.id < o.id
        /\ Touches(o, q)

\* C18: with a caller stream, no kernel or matmul Run enqueued on the engine's
\* streams reads or accumulates into a caller buffer (h[0], the zero-filled dwx,
\* du, dh) before the work enqueued earlier on the caller's stream that
\* initialises that buffer has completed.
C18_InitBeforeUse ==
    cfg.sync_stream # NullStream => ~RanBeforeInit

\* C18 where it holds: on the legacy default stream the engine's blocking
\* streams run behind the caller's earlier work
C18_InitBeforeUse_Legacy ==
    cfg.sync_stream = NullStream => ~RanBeforeInit

\* C18 (what the code does): in the backward call on a caller stream the gate
\* kernel of the last step has read dh while the zero fill of dh is still pending
C18_GateBeforeZeroDh ==
    /\ cfg.sync_stream # NullStream
    /\ cfg.T >= 1
    /\ HasRun(BwdGateKinds, cfg.T - 1)
    /\ \E q \in Pending("caller") : q.kind = "zero_dh"

\* C19: for every activation and equal inputs (h_t, the cached a, z, candidate,
\* grad_out, the running dh) the 1.0 and the 2.0 backward gate kernels write the
\* same values to dwx slot 0, dwx slot 1 and dh: whenever a backward gate kernel
\* runs, the kernel of either version applied to the memory it runs on gives the
\* memory it leaves.
C19_Step ==
    \A o \in Running :
        o.kind \in BwdGateKinds =>
            /\ ExecBwdGate(o, mem, [cfg EXCEPT !.version = 1]) = mem'
            /\ ExecBwdGate(o, mem, [cfg EXCEPT !.version = 2]) = mem'

C19_KernelsAgree == [][C19_Step]_vars

\* C19: the gate kernel of the last step of a 2.0 backward has run on the varied
\* inputs and left non-zero gradients in both slots of dwx and in dh
C19_Witness ==
    /\ cfg.seed = 1 /\ cfg.version = 2 /\ cfg.T >= 1
    /\ HasRun(BwdGateKinds, cfg.T - 1)
    /\ ~HasRun({"gemm_dh"}, cfg.T - 1)
    /\ \E b \in BatchRows : \E j \in Units :
           /\ GradAt(mem, "dwx", cfg.T - 1, b, 0, j) # Zero
           /\ GradAt(mem, "dwx", cfg.T - 1, b, 1, j) # Zero
           /\ DhAt(mem, b, j) # Zero

====
